---- MODULE Spec2Model ----
(***************************************************************************)
(* Model of pyet/utils.py: the solar-geometry helpers of PyEt.            *)
(*                                                                         *)
(* Floating-point numbers are modelled in fixed point: the integer x      *)
(* stands for the real x / Scale.  NaN is a value outside the range of    *)
(* every number the model computes; all arithmetic propagates it and      *)
(* every ordered comparison with it is false, as in IEEE 754.             *)
(* A numpy array / pandas Index is a sequence; a ufunc is applied         *)
(* element by element, a scalar operand is broadcast.                     *)
(***************************************************************************)
EXTENDS Integers, Sequences, FiniteSets

\* ------------------------------------------------------------------------
\* Fixed-point reals
\* ------------------------------------------------------------------------
Scale == 10^4

NaN == 0 - 2^30

Abs(x) == IF x < 0 THEN 0 - x ELSE x

Sgn(x) == IF x < 0 THEN 0 - 1 ELSE IF x > 0 THEN 1 ELSE 0

\* a / b for an integer b > 0, rounded to nearest (sign-symmetric)
RoundDiv(a, b) == Sgn(a) * ((Abs(a) + b \div 2) \div b)

\* x * y / Scale for x, y >= 0, rounded to nearest, without a wide product
MulFix(x, y) ==
    LET hi == IF x >= y THEN x ELSE y
        lo == IF x >= y THEN y ELSE x
        q  == hi \div Scale
        r  == hi % Scale
    IN  q * lo + (r * lo + Scale \div 2) \div Scale

\* x * Scale / y for x >= 0, y > 0, rounded to nearest
DivFix(x, y) ==
    LET q == x \div y
        r == x % y
    IN  q * Scale + (r * Scale + y \div 2) \div y

IsNaN(x) == x = NaN

FNeg(a) == IF IsNaN(a) THEN NaN ELSE 0 - a

FAdd(a, b) == IF IsNaN(a) \/ IsNaN(b) THEN NaN ELSE a + b

FSub(a, b) == IF IsNaN(a) \/ IsNaN(b) THEN NaN ELSE a - b

FMul(a, b) ==
    IF IsNaN(a) \/ IsNaN(b) THEN NaN
    ELSE Sgn(a) * Sgn(b) * MulFix(Abs(a), Abs(b))

FDiv(a, b) ==
    IF IsNaN(a) \/ IsNaN(b) THEN NaN
    ELSE Sgn(a) * Sgn(b) * DivFix(Abs(a), Abs(b))

\* float times / over a Python int n
FMulInt(a, n) == IF IsNaN(a) THEN NaN ELSE a * n

FDivInt(a, n) == IF IsNaN(a) THEN NaN ELSE RoundDiv(a, n)

\* the float of a Python int
Float(n) == n * Scale

\* ordered comparisons: false as soon as one side is NaN
FLe(a, b) == ~IsNaN(a) /\ ~IsNaN(b) /\ a <= b

\* ------------------------------------------------------------------------
\* numpy names imported on line 1
\* ------------------------------------------------------------------------
pi == 31416

\* x reduced to (-pi, pi], then folded into [-pi/2, pi/2] with
\* sin(pi - x) = sin(x)
ReduceArg(x) ==
    LET m == x % (2 * pi)
        w == IF m > pi THEN m - 2 * pi ELSE m
    IN  IF w > pi \div 2 THEN pi - w
        ELSE IF w < 0 - (pi \div 2) THEN 0 - pi - w
        ELSE w

RECURSIVE SinSeries(_, _, _, _)
\* Taylor series of sin: acc + term_n + term_(n+1) + ..., stopping at the
\* first term that rounds to zero
SinSeries(x2, term, n, acc) ==
    IF term = 0 THEN acc
    ELSE SinSeries(x2,
                   0 - RoundDiv(Sgn(term) * MulFix(Abs(term), x2),
                                (2 * n) * (2 * n + 1)),
                   n + 1,
                   acc + term)

sin(x) ==
    IF IsNaN(x) THEN NaN
    ELSE LET r == ReduceArg(x)
             s == SinSeries(MulFix(Abs(r), Abs(r)), r, 1, 0)
         IN  IF s > Scale THEN Scale
             ELSE IF s < 0 - Scale THEN 0 - Scale ELSE s

cos(x) == IF IsNaN(x) THEN NaN ELSE sin(x + pi \div 2)

\* tan is finite for every float; the model's inputs stay off the zeros of
\* the fixed-point cosine
tan(x) ==
    IF IsNaN(x) THEN NaN
    ELSE LET s == sin(x)
             c == cos(x)
         IN  Sgn(s) * Sgn(c) * DivFix(Abs(s), Abs(c))

RECURSIVE ArccosSearch(_, _, _)
\* the angle in lo..hi whose cosine is nearest x; cos decreases on [0, pi]
ArccosSearch(x, lo, hi) ==
    IF hi - lo <= 1
    THEN IF Abs(cos(lo) - x) <= Abs(cos(hi) - x) THEN lo ELSE hi
    ELSE LET mid == (lo + hi) \div 2
         IN  IF cos(mid) >= x THEN ArccosSearch(x, mid, hi)
             ELSE ArccosSearch(x, lo, mid)

\* numpy.arccos: NaN (and a RuntimeWarning, no exception) outside [-1, 1]
arccos(x) ==
    IF IsNaN(x) THEN NaN
    ELSE IF x > Scale \/ x < 0 - Scale THEN NaN
    ELSE IF x = Scale THEN 0
    ELSE IF x = 0 - Scale THEN pi
    ELSE ArccosSearch(x, 0, pi)

\* ------------------------------------------------------------------------
\* Arrays: a value is a function, with domain {0} for a scalar (0-d) and
\* 1..N for an array of length N; ufuncs broadcast a scalar operand
\* ------------------------------------------------------------------------
Scalar(x) == [i \in {0} |-> x]

IsScalar(a) == DOMAIN a = {0}

Map1(F(_), a) == [i \in DOMAIN a |-> F(a[i])]

Broadcast2(F(_, _), a, b) ==
    IF IsScalar(a) THEN [i \in DOMAIN b |-> F(a[0], b[i])]
    ELSE IF IsScalar(b) THEN [i \in DOMAIN a |-> F(a[i], b[0])]
    ELSE [i \in DOMAIN a |-> F(a[i], b[i])]

\* numpy.maximum / numpy.minimum propagate NaN
FMax(a, b) == IF IsNaN(a) \/ IsNaN(b) THEN NaN ELSE IF a >= b THEN a ELSE b

FMin(a, b) == IF IsNaN(a) \/ IsNaN(b) THEN NaN ELSE IF a <= b THEN a ELSE b

\* round(x, 1) on an array rounds each element to the nearest tenth, ties to
\* the even tenth
Round1(x) ==
    IF IsNaN(x) THEN NaN
    ELSE LET u == Scale \div 10
             q == Abs(x) \div u
             r == Abs(x) % u
             n == IF 2 * r > u \/ (2 * r = u /\ q % 2 = 1) THEN q + 1 ELSE q
         IN  Sgn(x) * n * u

\* ------------------------------------------------------------------------
\* Name resolution: the names bound in the module's namespace (the two
\* import lines and the eight defs) and the builtins the code relies on
\* ------------------------------------------------------------------------
ModuleGlobals ==
    {"tan", "cos", "pi", "sin", "arccos", "to_numeric",
     "day_of_year", "daylight_hours", "sunset_angle", "sunset_angle_hour",
     "solar_declination", "relative_distance", "extraterrestrial_r",
     "extraterrestrial_r_hour"}

Builtins == {"round", "abs", "min", "max", "len", "range", "float", "int"}

NameBound(n) == n \in ModuleGlobals \/ n \in Builtins

Returned(v) == [status |-> "returned", value |-> v, exc |-> "none"]

Raised(e, n) == [status |-> "raised", value |-> n, exc |-> e]

\* ------------------------------------------------------------------------
\* day_of_year
\* ------------------------------------------------------------------------
IsLeap(y) == (y % 4 = 0 /\ y % 100 # 0) \/ y % 400 = 0

DaysInMonth(y, m) ==
    IF m = 2 THEN (IF IsLeap(y) THEN 29 ELSE 28)
    ELSE IF m \in {4, 6, 9, 11} THEN 30 ELSE 31

RECURSIVE DaysBefore(_, _)
\* days of year y in the months before month m
DaysBefore(y, m) == IF m = 1 THEN 0 ELSE DaysBefore(y, m - 1) + DaysInMonth(y, m - 1)

\* the day of the year counted from zero, as C's tm_yday
strftime_j_zero_based(ts) ==
    LET d == DaysBefore(ts.year, ts.month) + ts.day - 1
    IN  <<d \div 100, (d \div 10) % 10, d % 10>>

\* Timestamp.strftime('%j'): the day of the year as three decimal digits,
\* zero padded ("001" .. "366")
strftime_j(ts) ==
    LET d == DaysBefore(ts.year, ts.month) + ts.day
    IN  <<d \div 100, (d \div 10) % 10, d % 10>>

RECURSIVE ParseDigits(_, _)
ParseDigits(str, acc) ==
    IF str = <<>> THEN acc ELSE ParseDigits(Tail(str), 10 * acc + Head(str))

\* pandas.to_numeric of one string of decimal digits
to_numeric(str) == ParseDigits(str, 0)

\* every element takes the day of the first timestamp
day_of_year_first(meteoindex) ==
    [i \in DOMAIN meteoindex |-> to_numeric(strftime_j(meteoindex[1]))]

day_of_year(meteoindex) ==
    [i \in DOMAIN meteoindex |-> to_numeric(strftime_j(meteoindex[i]))]

\* ------------------------------------------------------------------------
\* solar_declination, relative_distance, sunset_angle
\* ------------------------------------------------------------------------
PiLit == 31416

DeclAmp == 4093

DeclPhase == 13900

YearDays == 365

\* 2. * 3.141592654 / 365. * j for an integer day j; the division comes last
\* so that the small factor 2 pi / 365 is not rounded to the fixed-point unit
YearAngle(j) == FDivInt(FMulInt(2 * PiLit, j), YearDays)

solar_declination(j) ==
    Map1(LAMBDA d : FMul(DeclAmp, sin(FSub(YearAngle(d), DeclPhase))), j)

EccAmp == 330

relative_distance(j) ==
    Map1(LAMBDA d : FAdd(Float(1), FMul(EccAmp, cos(YearAngle(d)))), j)

\* the argument of arccos forced into [-1, 1]
sunset_angle_clipped(sol_dec, lat) ==
    Map1(LAMBDA x : arccos(FMin(FMax(x, 0 - Scale), Scale)),
         Broadcast2(FMul, Map1(FNeg, Map1(tan, sol_dec)), Map1(tan, lat)))

\* the tangent of the second argument forgotten
sunset_angle_no_tan(sol_dec, lat) ==
    Map1(arccos, Broadcast2(FMul, Map1(FNeg, Map1(tan, sol_dec)), lat))

sunset_angle(sol_dec, lat) ==
    Map1(arccos,
         Broadcast2(FMul, Map1(FNeg, Map1(tan, sol_dec)), Map1(tan, lat)))

\* ------------------------------------------------------------------------
\* daylight_hours
\* ------------------------------------------------------------------------
DayHours == 24

\* 12 / pi in place of 24 / pi
daylight_hours_half(meteoindex, lat) ==
    Map1(Round1,
         Broadcast2(FMul, Scalar(FDiv(Float(12), pi)),
                    sunset_angle(solar_declination(day_of_year(meteoindex)), lat)))

\* the rounding to one decimal left out
daylight_hours_unrounded(meteoindex, lat) ==
    Broadcast2(FMul, Scalar(FDiv(Float(DayHours), pi)),
               sunset_angle(solar_declination(day_of_year(meteoindex)), lat))

daylight_hours(meteoindex, lat) ==
    LET j       == day_of_year(meteoindex)
        sol_dec == solar_declination(j)
        sangle  == sunset_angle(sol_dec, lat)
    IN  Map1(Round1,
             Broadcast2(FMul, Scalar(FDiv(Float(DayHours), pi)), sangle))

\* ------------------------------------------------------------------------
\* extraterrestrial_r
\* ------------------------------------------------------------------------
RaDay == 1180800

\* lines 138-140: the radiation from dr, the declination, the latitude and
\* the sunset angle omega
DailyRa(dr, sol_dec, lat, omega) ==
    LET xx == Broadcast2(FMul, Map1(sin, sol_dec), Map1(sin, lat))
        yy == Broadcast2(FMul, Map1(cos, sol_dec), Map1(cos, lat))
        k  == Broadcast2(FMul, Scalar(FDiv(RaDay, PiLit)), dr)
    IN  Broadcast2(FMul, k,
                   Broadcast2(FAdd, Broadcast2(FMul, omega, xx),
                                    Broadcast2(FMul, yy, Map1(sin, omega))))

extraterrestrial_r(meteoindex, lat) ==
    LET j       == day_of_year(meteoindex)
        dr      == relative_distance(j)
        sol_dec == solar_declination(j)
        omega   == sunset_angle(lat, sol_dec)
    IN  DailyRa(dr, sol_dec, lat, omega)

\* ------------------------------------------------------------------------
\* sunset_angle_hour, extraterrestrial_r_hour
\* ------------------------------------------------------------------------
SeasonShift == 81

SeasonDays == 364

EqTimeA == 1645

EqTimeB == 1255

EqTimeC == 250

LonRate == 667

NoonHour == 12

HourAngleDiv == 12

HalfHourDiv == 24

HalfDay == 12

ClipLow == 0 - 10^8

Gsc == 49200

\* numpy.clip(a, lo, hi) = minimum(maximum(a, lo), hi), element by element
clip(a, lo, hi) == Broadcast2(FMin, Broadcast2(FMax, a, lo), hi)

\* maximum(x, n) for a Python int n too large to scale: x < n exactly when
\* floor(x) < n
FMaxInt(x, n) ==
    IF IsNaN(x) THEN NaN ELSE IF x \div Scale < n THEN n * Scale ELSE x

\* lines 67-71: the values the function computes and never uses
solar_time(meteoindex, lz, lm) ==
    LET j  == day_of_year(meteoindex)
        b  == Map1(LAMBDA d : FDivInt(FMulInt(2 * pi, d - SeasonShift), SeasonDays), j)
        sc == Map1(LAMBDA x : FSub(FSub(FMul(EqTimeA, sin(2 * x)),
                                        FMul(EqTimeB, cos(x))),
                                   FMul(EqTimeC, sin(x))), b)
        t  == [i \in DOMAIN meteoindex |-> Float(meteoindex[i].hour) + Scale \div 2]
        dl == FMul(LonRate, FSub(lz[0], lm[0]))
    IN  [i \in DOMAIN meteoindex |->
            FSub(FAdd(FAdd(t[i], dl), sc[i]), Float(NoonHour))]

\* lines 78-81: the self-maximum, the final clamp and the returned pair
clamp_step(omega1, omega2) ==
    IF ~NameBound("maximum") THEN Raised("NameError", "maximum")
    ELSE Returned(<<omega2,
                    Broadcast2(FMin,
                        Map1(LAMBDA v : FMaxInt(v, ClipLow),
                             Broadcast2(FMax, omega1, omega1)),
                        omega2)>>)

\* lines 76-77: both angles clipped into [-omegas, omegas]
clip_step(omega1, omega2, omegas) ==
    IF ~NameBound("clip") THEN Raised("NameError", "clip")
    ELSE clamp_step(clip(omega1, Map1(FNeg, omegas), omegas),
                    clip(omega2, Map1(FNeg, omegas), omegas))

sunset_angle_hour(meteoindex, lz, lm, lat, sol_dec) ==
    LET sol_t  == solar_time(meteoindex, lz, lm)
        omega  == FDivInt(pi, HourAngleDiv)
        omega1 == omega - FDivInt(pi, HalfHourDiv)
        omega2 == omega + FDivInt(pi, HalfHourDiv)
    IN  clip_step(Scalar(omega1), Scalar(omega2),
                  Map1(arccos,
                       Broadcast2(FMul, Map1(FNeg, Map1(tan, lat)),
                                        Map1(tan, sol_dec))))

\* lines 164-169
HourlyRa(dr, sol_dec, lat, omega2, omega1) ==
    LET xx == Broadcast2(FMul, Map1(sin, sol_dec), Map1(sin, lat))
        yy == Broadcast2(FMul, Map1(cos, sol_dec), Map1(cos, lat))
        k  == Broadcast2(FMul, Scalar(FMul(FDiv(Float(HalfDay), pi), Gsc)), dr)
    IN  Broadcast2(FMul, k,
            Broadcast2(FAdd,
                Broadcast2(FMul, Broadcast2(FSub, omega2, omega1), xx),
                Broadcast2(FMul, yy,
                    Broadcast2(FSub, Map1(sin, omega2), Map1(sin, omega1)))))

\* lines 164-169 reached only when sunset_angle_hour returned
hourly_outcome(angles, dr, sol_dec, lat) ==
    IF angles.status = "raised" THEN angles
    ELSE Returned(HourlyRa(dr, sol_dec, lat, angles.value[1], angles.value[2]))

extraterrestrial_r_hour(meteoindex, lat, lz, lm) ==
    LET j       == day_of_year(meteoindex)
        dr      == relative_distance(j)
        sol_dec == solar_declination(j)
    IN  hourly_outcome(sunset_angle_hour(meteoindex, lz, lm, lat, sol_dec),
                       dr, sol_dec, lat)

\* ------------------------------------------------------------------------
\* Inputs
\* ------------------------------------------------------------------------
MaxLen == 2

Stamp(y, m, d, h) == [year |-> y, month |-> m, day |-> d, hour |-> h]

DatesOf(y) ==
    UNION {{Stamp(y, m, d, 0) : d \in 1..DaysInMonth(y, m)} : m \in 1..12}

\* century years: 1900 is not a leap year, 2000 is
CornerStamps ==
    {Stamp(y, m, d, h) : y \in {1900, 2000}, m \in {1, 3, 12}, d \in {1, 31}, h \in {0, 23}}

FewStamps == {Stamp(2019, 1, 1, 0), Stamp(2020, 6, 20, 13), Stamp(2020, 12, 31, 23)}

Stamps == DatesOf(2019) \cup DatesOf(2020) \cup CornerStamps \cup FewStamps

SeqsOver(S, lo, hi) == UNION {[1..n -> S] : n \in lo..hi}

Indexes == SeqsOver(Stamps, 1, 1) \cup SeqsOver(FewStamps, 2, MaxLen)

FewIndexes == SeqsOver(FewStamps, 1, MaxLen)

Lats == {-15000, -7000, 0, 4189, 10000, 13000}

Decs == {-4093, -2000, 0, 4093, 12000}

DaySeqs == SeqsOver(0..367, 1, 1) \cup SeqsOver({1, 172, 366}, 2, MaxLen)

Lons == {0, 150000, 1234567}

ConstSeq(n, x) == [i \in 1..n |-> x]

Calls ==
    [fn : {"day_of_year"}, meteoindex : Indexes]
    \cup [fn : {"solar_declination", "relative_distance"}, j : DaySeqs]
    \cup [fn : {"sunset_angle"}, sol_dec : SeqsOver(Decs, 1, MaxLen), lat : Lats]
    \cup [fn : {"daylight_hours", "extraterrestrial_r"}, meteoindex : Indexes, lat : Lats]
    \cup {[fn |-> "sunset_angle_hour", meteoindex |-> ix, lz |-> z, lm |-> m,
           lat |-> l, sol_dec |-> ConstSeq(Len(ix), d)] :
             ix \in FewIndexes, z \in Lons, m \in {0}, l \in {0, 4189, 13000},
             d \in {-4093, 4093}}
    \cup [fn : {"extraterrestrial_r_hour"}, meteoindex : FewIndexes,
          lat : {0, 4189, 13000}, lz : Lons, lm : {0, 150000}]

PairStamps == {Stamp(2019, 1, 1, 0), Stamp(2020, 6, 20, 13)}

PairIndexes == SeqsOver(PairStamps, 1, MaxLen)

PairCalls ==
    [fn : {"daylight_hours", "extraterrestrial_r"}, meteoindex : PairIndexes,
     lat : {0, 4189}]
    \cup {[fn |-> "sunset_angle_hour", meteoindex |-> ix, lz |-> z, lm |-> 0,
           lat |-> 4189, sol_dec |-> ConstSeq(Len(ix), d)] :
             ix \in PairIndexes, z \in {0, 150000}, d \in {-4093, 4093}}

\* ------------------------------------------------------------------------
\* The caller and the calls
\* ------------------------------------------------------------------------
VARIABLES pc, args, ret, prev

vars == <<pc, args, ret, prev>>

NoCall == [fn |-> "none"]

NoRet == [status |-> "none", value |-> <<>>, exc |-> "none"]

Init ==
    /\ pc = "idle"
    /\ args = NoCall
    /\ ret = NoRet
    /\ prev = [args |-> NoCall, ret |-> NoRet]

\* the caller binds the arguments of one call
Invoke(calls) ==
    /\ pc = "idle"
    /\ \E a \in calls : args' = a
    /\ pc' = "ready"
    /\ UNCHANGED <<ret, prev>>

\* the body of the called function runs; it rebinds no argument
Run(fn, result) ==
    /\ pc = "ready"
    /\ args.fn = fn
    /\ ret' = result
    /\ pc' = "done"
    /\ UNCHANGED <<args, prev>>

Call_day_of_year ==
    Run("day_of_year", Returned(day_of_year(args.meteoindex)))

Call_solar_declination ==
    Run("solar_declination", Returned(solar_declination(args.j)))

Call_relative_distance ==
    Run("relative_distance", Returned(relative_distance(args.j)))

Call_sunset_angle ==
    Run("sunset_angle", Returned(sunset_angle(args.sol_dec, Scalar(args.lat))))

Call_daylight_hours ==
    Run("daylight_hours", Returned(daylight_hours(args.meteoindex, Scalar(args.lat))))

Call_extraterrestrial_r ==
    Run("extraterrestrial_r",
        Returned(extraterrestrial_r(args.meteoindex, Scalar(args.lat))))

Call_sunset_angle_hour ==
    Run("sunset_angle_hour",
        sunset_angle_hour(args.meteoindex, Scalar(args.lz), Scalar(args.lm),
                          Scalar(args.lat), args.sol_dec))

Call_extraterrestrial_r_hour ==
    Run("extraterrestrial_r_hour",
        extraterrestrial_r_hour(args.meteoindex, Scalar(args.lat),
                                Scalar(args.lz), Scalar(args.lm)))

\* the caller takes the outcome; nothing of the call survives in the module
Return ==
    /\ pc = "done"
    /\ pc' = "idle"
    /\ args' = NoCall
    /\ ret' = NoRet
    /\ UNCHANGED prev

\* as Return, with the finished call kept for comparison with the next one
ReturnObserved ==
    /\ pc = "done"
    /\ pc' = "idle"
    /\ prev' = [args |-> args, ret |-> ret]
    /\ args' = NoCall
    /\ ret' = NoRet

InvokeAny == Invoke(Calls)

InvokePair == Invoke(PairCalls)

Next ==
    \/ InvokeAny
    \/ Call_day_of_year
    \/ Call_solar_declination
    \/ Call_relative_distance
    \/ Call_sunset_angle
    \/ Call_daylight_hours
    \/ Call_extraterrestrial_r
    \/ Call_sunset_angle_hour
    \/ Call_extraterrestrial_r_hour
    \/ Return

Spec == Init /\ [][Next]_vars

NextPair ==
    \/ InvokePair
    \/ Call_daylight_hours
    \/ Call_extraterrestrial_r
    \/ Call_sunset_angle_hour
    \/ ReturnObserved

SpecPair == Init /\ [][NextPair]_vars

\* ------------------------------------------------------------------------
\* Properties
\* ------------------------------------------------------------------------
Done(fn) == pc = "done" /\ args.fn = fn

\* C1: every call of sunset_angle_hour returns a pair (omega2, omega1) with
\* omega1 <= omega2 in every element
C1_HourAnglesOrdered ==
    Done("sunset_angle_hour") =>
        /\ ret.status = "returned"
        /\ \A i \in DOMAIN ret.value[2] : FLe(ret.value[2][i], ret.value[1][i])

\* C2: every call of sunset_angle_hour and of extraterrestrial_r_hour with a
\* well-formed index of length N returns sequences of length N; none raises
C2_HourlyCallsReturn ==
    /\ Done("sunset_angle_hour") =>
          /\ ret.status = "returned"
          /\ DOMAIN ret.value[1] = DOMAIN args.meteoindex
          /\ DOMAIN ret.value[2] = DOMAIN args.meteoindex
    /\ Done("extraterrestrial_r_hour") =>
          /\ ret.status = "returned"
          /\ DOMAIN ret.value = DOMAIN args.meteoindex

\* C3: sunset_angle never raises; element by element the result is NaN when
\* |tan(sol_dec) * tan(lat)| > 1 and a number in [0, pi] otherwise
C3_SunsetAngleNaNOrInRange ==
    Done("sunset_angle") =>
        /\ ret.status = "returned"
        /\ DOMAIN ret.value = DOMAIN args.sol_dec
        /\ \A i \in DOMAIN args.sol_dec :
              IF Abs(FMul(tan(args.sol_dec[i]), tan(args.lat))) > Scale
              THEN IsNaN(ret.value[i])
              ELSE ~IsNaN(ret.value[i]) /\ 0 <= ret.value[i] /\ ret.value[i] <= pi

\* a call of sunset_angle on an array with an invalid and a valid element
C3_Witness ==
    /\ Done("sunset_angle")
    /\ \E i, k \in DOMAIN ret.value : IsNaN(ret.value[i]) /\ ~IsNaN(ret.value[k])

\* C4 as claimed: some declination and latitude give sunset_angle(lat, sol_dec)
\* a value other than sunset_angle(sol_dec, lat) (looked for, once a call has
\* completed, over the latitudes and declinations of the model)
C4_SwapChangesAngle ==
    pc = "done" => \E l \in Lats :
        \E d \in Decs \cup {solar_declination(<<j>>)[1] : j \in {1, 81, 172, 366}} :
            sunset_angle(Scalar(l), Scalar(d)) # sunset_angle(Scalar(d), Scalar(l))

\* C4 amended: exchanging the two arguments of sunset_angle never changes its
\* result, and the radiation extraterrestrial_r returns is the one the call in
\* the declared order (sol_dec, lat) gives
C4_SwapChangesNothing ==
    /\ Done("sunset_angle") =>
          ret.value = sunset_angle(Scalar(args.lat), args.sol_dec)
    /\ Done("extraterrestrial_r") =>
          ret.value =
              DailyRa(relative_distance(day_of_year(args.meteoindex)),
                      solar_declination(day_of_year(args.meteoindex)),
                      Scalar(args.lat),
                      sunset_angle(solar_declination(day_of_year(args.meteoindex)),
                                   Scalar(args.lat)))

\* extraterrestrial_r returned a number at a latitude whose tangent differs
\* from the latitude itself and from the declination's
C4_Witness ==
    /\ Done("extraterrestrial_r")
    /\ args.lat = 10000
    /\ \E i \in DOMAIN ret.value :
          /\ ~IsNaN(ret.value[i])
          /\ solar_declination(day_of_year(args.meteoindex))[i] = DeclAmp

\* C5: two calls of sunset_angle_hour that agree on lat and sol_dec return the
\* same pair, whatever the index, lz and lm
C5_HourAnglesIgnoreTime ==
    ( /\ Done("sunset_angle_hour")
      /\ prev.args.fn = "sunset_angle_hour"
      /\ prev.args.lat = args.lat
      /\ prev.args.sol_dec = args.sol_dec )
    => /\ ret.status = "returned"
       /\ prev.ret.status = "returned"
       /\ ret.value = prev.ret.value

\* the ordinal day by counting the dates of the year up to the timestamp's
OrdinalByCounting(ts) ==
    Cardinality({md \in (1..12) \X (1..31) :
                    /\ md[2] <= DaysInMonth(ts.year, md[1])
                    /\ \/ md[1] < ts.month
                       \/ md[1] = ts.month /\ md[2] <= ts.day})

C7_EquatorTwelveHours ==
    (Done("daylight_hours") /\ args.lat = 0) =>
        \A i \in DOMAIN args.meteoindex :
            /\ ~IsNaN(ret.value[i])
            /\ Abs(ret.value[i] - Float(12)) <= Scale \div 10
            /\ sunset_angle(solar_declination(day_of_year(args.meteoindex)),
                            Scalar(0))[i] = pi \div 2

\* daylight_hours ran at the equator on day 366
C7_Witness ==
    /\ Done("daylight_hours")
    /\ args.lat = 0
    /\ \E i \in DOMAIN args.meteoindex : day_of_year(args.meteoindex)[i] = 366

\* C8: daylight_hours(idx, lat) is round(24/pi * sunset_angle(
\* solar_declination(day_of_year(idx)), lat), 1) exactly, NaN exactly where
\* sunset_angle is
C8_DaylightHoursComposition ==
    Done("daylight_hours") =>
        LET sangle == sunset_angle(solar_declination(day_of_year(args.meteoindex)),
                                   Scalar(args.lat))
        IN  /\ ret.status = "returned"
            /\ ret.value =
                  [i \in DOMAIN args.meteoindex |->
                      Round1(FMul(FDiv(Float(24), pi), sangle[i]))]
            /\ \A i \in DOMAIN args.meteoindex :
                  IsNaN(ret.value[i]) <=> IsNaN(sangle[i])

\* daylight_hours ran away from the equator on a day whose hours the
\* rounding changes
C8_Witness ==
    /\ Done("daylight_hours")
    /\ args.lat # 0
    /\ \E i \in DOMAIN ret.value :
          /\ ~IsNaN(ret.value[i])
          /\ ret.value[i] # daylight_hours_unrounded(args.meteoindex,
                                                      Scalar(args.lat))[i]

\* the i-th output of a call agrees with the i-th output of the call before
\* it wherever both ran the same function at the same latitude on the same
\* i-th timestamp
ElementWise ==
    (pc = "done" /\ args.fn \in {"daylight_hours", "extraterrestrial_r"}) =>
        /\ ret.status = "returned"
        /\ DOMAIN ret.value = DOMAIN args.meteoindex
        /\ (prev.args.fn = args.fn /\ prev.args.lat = args.lat) =>
              \A i \in DOMAIN args.meteoindex \cap DOMAIN prev.args.meteoindex :
                  args.meteoindex[i] = prev.args.meteoindex[i]
                      => ret.value[i] = prev.ret.value[i]

\* C9: daylight_hours and extraterrestrial_r return N elements, the i-th
\* depending only on the i-th timestamp and the latitude; the call leaves its
\* arguments as they were, and a repeated call gives the same result
C9_PureElementWise ==
    [][(pc = "ready" /\ pc' = "done") => (args' = args /\ ElementWise')]_vars

\* a call on a two-element index right after a call of the same function at
\* the same latitude whose index has the same first and another second
\* timestamp
C9_Witness ==
    /\ pc = "done"
    /\ args.fn \in {"daylight_hours", "extraterrestrial_r"}
    /\ prev.args.fn = args.fn
    /\ prev.args.lat = args.lat
    /\ Len(args.meteoindex) = 2
    /\ Len(prev.args.meteoindex) = 2
    /\ args.meteoindex[1] = prev.args.meteoindex[1]
    /\ args.meteoindex[2] # prev.args.meteoindex[2]
    /\ ret.value[2] # prev.ret.value[2]

\* C10: whenever omegas = arccos(-tan(lat) * tan(sol_dec)) is not NaN, both
\* angles sunset_angle_hour returns lie in [-omegas, omegas]
C10_HourAnglesWithinSunset ==
    Done("sunset_angle_hour") =>
        /\ ret.status = "returned"
        /\ \A i \in DOMAIN args.sol_dec :
              LET omegas == sunset_angle(Scalar(args.lat), args.sol_dec)[i]
              IN  ~IsNaN(omegas) =>
                     /\ FLe(0 - omegas, ret.value[1][i])
                     /\ FLe(ret.value[1][i], omegas)
                     /\ FLe(0 - omegas, ret.value[2][i])
                     /\ FLe(ret.value[2][i], omegas)

====
